---- MODULE Spec2Model ----
(***************************************************************************)
(* Model of the caro-bus core: the per-peer call registry                  *)
(* (caro-bus-common/src/call_registry.rs) and the hub's per-client message *)
(* handling (hub/src/client.rs).                                           *)
(*                                                                         *)
(* The registry's operations are async functions that run on a             *)
(* multi-threaded executor over Arc-shared state, so every lock            *)
(* acquisition, every atomic operation and every .await is a separate      *)
(* step of the task that executes it.                                      *)
(***************************************************************************)
EXTENDS Integers, Sequences, FiniteSets, TLC

\* ---------------------------------------------------------------- bounds
\* seq_counter is an AtomicU64; the model stops drawing at MaxSeq, far
\* below the wrap-around at 2^64.
MaxSeq == 2
\* total number of resolve() invocations started
MaxResolves == 2
\* total number of messages the hub's client tasks read from their sockets
MaxMsgs == 3
\* number of frames the peer sends to the parser
MaxFrames == 2
\* number of calls made on a client-side State handle
MaxOps == 5
\* number of items the hub core enqueues to clients of the run loop
MaxSends == 2
\* number of frames the clients of the run loop send
MaxReads == 2

\* tasks that invoke call() on clones of one registry; a task's sink is the
\* Sender half of its own mpsc channel, so a sink is named after its task
Callers == {"w1", "w2"}
\* tasks that invoke resolve() on clones of one registry
Resolvers == {"r1", "r2"}
\* the task that reads the peer socket
InboundReader == "r1"

None == "none"

\* body variants that reach resolve(): Response::Signal, and Response::Return
\* standing for every variant that `matches!` does not select
Bodies == {"Signal", "Return"}

VARIABLES
    seq_counter,   \* CallRegistry.seq_counter
    calls,         \* CallRegistry.calls: seq -> sink, as a function on its key set
    socket,        \* frames written to the peer socket by call(), by seq
    call_pc,       \* position of each caller inside call()
    call_seq,      \* local `seq` of each caller
    call_result,   \* what the caller's last call() returned
    assigned,      \* every seq drawn, in draw order
    res_pc,        \* position of each resolver inside resolve()
    res_msg,       \* local `message` of each resolver
    res_sender,    \* local `maybe_sender` of each resolver
    resolves,      \* number of resolve() invocations started
    sink_rx,       \* messages delivered to each sink, in order
    rx_dropped     \* sinks whose Receiver has been dropped

regvars == <<seq_counter, calls, socket, call_pc, call_seq, call_result,
             assigned, res_pc, res_msg, res_sender, resolves, sink_rx,
             rx_dropped>>

VARIABLES
    service_name,  \* Client.service_name of each hub client record
    hub_queue,     \* ClientRequests in flight on hub_tx, oldest first
    client_queue,  \* HubReponse items in flight on each client_tx
    socket_out,    \* what each client task has written to its socket
    inbound,       \* the messages each client task has read and handled
    name_table,    \* the hub's name table, as <<service name, uuid>> pairs
    fd_pairs       \* number of socket pairs the hub has created

hubvars == <<service_name, hub_queue, client_queue, socket_out, inbound,
             name_table, fd_pairs>>

VARIABLES
    sent,          \* the frames the peer puts on the wire, in order
    wire,          \* bytes of those frames not yet read from the socket
    buffer,        \* the BytesMut that parse_buffer works on
    parse_result,  \* what the last parse_buffer call returned
    parsed         \* the messages returned as FullMessage so far

parsevars == <<sent, wire, buffer, parse_result, parsed>>

VARIABLES
    internal,      \* State.internal: None, or the registered bus state
    service_bus,   \* whether crate::service::SERVICE_BUS holds a bus
    bus_poisoned,  \* whether the SERVICE_BUS mutex is poisoned
    state_result,  \* the last call on the State handle and what it returned
    state_ops      \* number of calls made on the State handle

statevars == <<internal, service_bus, bus_poisoned, state_result, state_ops>>

VARIABLES
    task,          \* where each client's spawned task is in its loop
    bytes_in,      \* complete frames in each task's `bytes`, not yet parsed
    run_sends      \* number of items the hub has sent to client_tx channels

runvars == <<task, bytes_in, run_sends>>

vars == <<regvars, hubvars, parsevars, statevars, runvars>>

NoMsg == [seq |-> 0, body |-> None]

\* ------------------------------------------------------- call registry
\* CallRegistry::new
RegistryInit ==
    /\ seq_counter = 0
    /\ calls = << >>
    /\ socket = << >>
    /\ call_pc = [t \in Callers |-> "idle"]
    /\ call_seq = [t \in Callers |-> 0]
    /\ call_result = [t \in Callers |-> None]
    /\ assigned = << >>
    /\ res_pc = [r \in Resolvers |-> "idle"]
    /\ res_msg = [r \in Resolvers |-> NoMsg]
    /\ res_sender = [r \in Resolvers |-> None]
    /\ resolves = 0
    /\ sink_rx = [t \in Callers |-> << >>]
    /\ rx_dropped = {}

\* HashMap::insert / HashMap::remove on the key set of `calls`
Insert(tbl, seq, sink) ==
    [k \in (DOMAIN tbl) \cup {seq} |-> IF k = seq THEN sink ELSE tbl[k]]

Remove_clear(tbl, seq) == << >>

Remove(tbl, seq) == [k \in (DOMAIN tbl) \ {seq} |-> tbl[k]]

\* CallRegistry::has_call
has_call(seq) == seq \in DOMAIN calls

\* AtomicU64::fetch_add(1, SeqCst): the value stored back
fetch_add_stale(c) == c

fetch_add(c) == c + 1

\* `socket.write_all(..).await?`: where call() continues after the write
after_write_ignore_err(ok) == "insert"

after_write(ok) == IF ok THEN "insert" ELSE "idle"

\* remove_call: `!matches!(message.body(), Response(Signal(_)))`
remove_call_always(body) == TRUE

remove_call(body) == body # "Signal"

\* self.calls.read().get(&message.seq).cloned()
lookup(tbl, seq) == IF seq \in DOMAIN tbl THEN tbl[seq] ELSE None

\* call(): `let seq = self.seq_counter.fetch_add(1, ..); message.seq = seq;`
CallDraw(t) ==
    /\ call_pc[t] = "idle"
    /\ seq_counter < MaxSeq
    /\ call_seq' = [call_seq EXCEPT ![t] = seq_counter]
    /\ seq_counter' = fetch_add(seq_counter)
    /\ assigned' = Append(assigned, seq_counter)
    /\ call_pc' = [call_pc EXCEPT ![t] = "write"]
    /\ call_result' = [call_result EXCEPT ![t] = None]
    /\ UNCHANGED <<calls, socket, res_pc, res_msg, res_sender, resolves,
                   sink_rx, rx_dropped>>

\* call(): `socket.write_all(message.bytes().as_slice()).await?`
CallWrite(t) ==
    /\ call_pc[t] = "write"
    /\ \E ok \in BOOLEAN :
         /\ socket' = IF ok THEN Append(socket, call_seq[t]) ELSE socket
         /\ call_pc' = [call_pc EXCEPT ![t] = after_write(ok)]
         /\ call_result' = [call_result EXCEPT ![t] =
                               IF ok THEN None ELSE "io_error"]
    /\ UNCHANGED <<seq_counter, calls, call_seq, assigned, res_pc, res_msg,
                   res_sender, resolves, sink_rx, rx_dropped>>

\* call(): `self.calls.write().insert(seq, callback); Ok(())`
CallInsert(t) ==
    /\ call_pc[t] = "insert"
    /\ calls' = Insert(calls, call_seq[t], t)
    /\ call_seq' = [call_seq EXCEPT ![t] = 0]
    /\ call_pc' = [call_pc EXCEPT ![t] = "idle"]
    /\ call_result' = [call_result EXCEPT ![t] =
                          IF call_result[t] = None THEN "ok" ELSE @]
    /\ UNCHANGED <<seq_counter, socket, assigned, res_pc, res_msg,
                   res_sender, resolves, sink_rx, rx_dropped>>

\* resolve(): remove_call, seq and the read-locked lookup of the sender
ResolveLookup(r) ==
    /\ res_pc[r] = "idle"
    /\ resolves < MaxResolves
    /\ \E s \in 0..(MaxSeq - 1), b \in Bodies :
         /\ res_msg' = [res_msg EXCEPT ![r] = [seq |-> s, body |-> b]]
         /\ res_sender' = [res_sender EXCEPT ![r] = lookup(calls, s)]
    /\ resolves' = resolves + 1
    /\ res_pc' = [res_pc EXCEPT ![r] = "send"]
    /\ UNCHANGED <<seq_counter, calls, socket, call_pc, call_seq, call_result,
                   assigned, sink_rx, rx_dropped>>

\* `if let Err(mess) = sender.send(message).await { error!(..) }`: where
\* resolve() continues after the send
after_send_propagate(ok) == IF ok THEN "remove" ELSE "idle"

after_send(ok) == "remove"

\* resolve(): `match maybe_sender { Some(sender) => sender.send(message).await,
\* _ => warn!(..) }`; a send to a dropped Receiver fails and is only logged
ResolveSend(r) ==
    /\ res_pc[r] = "send"
    /\ sink_rx' = IF res_sender[r] = None \/ res_sender[r] \in rx_dropped
                    THEN sink_rx
                    ELSE [sink_rx EXCEPT ![res_sender[r]] =
                             Append(@, res_msg[r])]
    /\ res_pc' = [res_pc EXCEPT ![r] =
                     after_send(res_sender[r] = None
                                  \/ res_sender[r] \notin rx_dropped)]
    /\ UNCHANGED <<seq_counter, calls, socket, call_pc, call_seq, call_result,
                   assigned, res_msg, res_sender, resolves, rx_dropped>>

\* resolve(): `if remove_call { self.calls.write().remove(&seq); }`
ResolveRemove(r) ==
    /\ res_pc[r] = "remove"
    /\ calls' = IF remove_call(res_msg[r].body)
                  THEN Remove(calls, res_msg[r].seq)
                  ELSE calls
    /\ res_pc' = [res_pc EXCEPT ![r] = "idle"]
    /\ res_msg' = [res_msg EXCEPT ![r] = NoMsg]
    /\ res_sender' = [res_sender EXCEPT ![r] = None]
    /\ UNCHANGED <<seq_counter, socket, call_pc, call_seq, call_result,
                   assigned, resolves, sink_rx, rx_dropped>>

\* the caller gives up and drops the Receiver half of its channel
DropReceiver(t) ==
    /\ t \notin rx_dropped
    /\ rx_dropped' = rx_dropped \cup {t}
    /\ UNCHANGED <<seq_counter, calls, socket, call_pc, call_seq, call_result,
                   assigned, res_pc, res_msg, res_sender, resolves, sink_rx>>

\* ------------------------------------------------------ hub client task
\* connections accepted by the hub, by uuid
Clients == {"u1", "u2"}

Names == {"svc.a", "svc.b", "svc.x"}

PROTOCOL_VERSION == 1

\* capacity of the client_tx channel
CLIENT_CHANNEL_CAPACITY == 32

\* what a client can send: ServiceRequest::Register, ServiceRequest::Connect
\* and any message that is not a ServiceRequest
Register(v, n) == [type |-> "Register", version |-> v, name |-> n]

Connect(n) == [type |-> "Connect", version |-> 0, name |-> n]

Data == [type |-> "Data", version |-> 0, name |-> ""]

ClientMessages ==
    {Register(v, n) : v \in {0, PROTOCOL_VERSION}, n \in Names}
      \cup {Connect(n) : n \in Names} \cup {Data}

\* ServiceMessage::IncomingPeerFd { peer_service_name }
IncomingPeerFd(n) == "IncomingPeerFd(" \o n \o ")"

\* HubReponse::Message(m) and HubReponse::Fd(m, fd)
HubMessage(m) == [kind |-> "Message", message |-> m]

HubFd(m) == [kind |-> "Fd", message |-> m]

\* ClientRequest { uuid, service_name, message }
ClientRequest(c, n, m) == [uuid |-> c, service_name |-> n, message |-> m]

\* permissions::service_name_allowed, with the oracle of scenario S4
service_name_allowed(creds, n) == n # "svc.x"

\* permissions::connection_allowed, for one policy: only svc.a and a client
\* with no name may connect, the latter to svc.a only
ConnectionPolicy ==
    {<<"", "svc.a">>, <<"svc.a", "svc.b">>, <<"svc.a", "svc.x">>}

connection_allowed(self_name, target) == <<self_name, target>> \in ConnectionPolicy

\* Client::run, up to the spawn
HubInit ==
    /\ service_name = [c \in Clients |-> ""]
    /\ hub_queue = << >>
    /\ client_queue = [c \in Clients |-> << >>]
    /\ socket_out = [c \in Clients |-> << >>]
    /\ inbound = [c \in Clients |-> << >>]
    /\ name_table = {}
    /\ fd_pairs = 0

\* `if protocol_version != messages::PROTOCOL_VERSION`
version_mismatch_inverted(v) == v = PROTOCOL_VERSION

version_mismatch(v) == v # PROTOCOL_VERSION

\* `if !permissions::service_name_allowed(&"socket_addr".into(), &service_name)`
name_denied(n) == ~service_name_allowed("socket_addr", n)

\* `if !permissions::connection_allowed(&self_service_name, &service_name)`
connect_denied_never(self_name, target) == FALSE

connect_denied(self_name, target) == ~connection_allowed(self_name, target)

\* `*(self.service_name.write()) = service_name.clone();`
assign_service_name_keep(old, requested) == old

assign_service_name(old, requested) == requested

\* handle_registration_message: the reply, the new service name and the
\* requests forwarded on hub_tx
handle_registration_message(c, m) ==
    IF version_mismatch(m.version)
      THEN [reply |-> "Error(InvalidProtocol)", name |-> service_name[c],
            forward |-> << >>]
    ELSE IF name_denied(m.name)
      THEN [reply |-> "Error(InvalidProtocol)", name |-> service_name[c],
            forward |-> << >>]
    ELSE [reply |-> None, name |-> assign_service_name(service_name[c], m.name),
          forward |-> <<ClientRequest(c, m.name, m)>>]

\* handle_connect_message
handle_connect_message(c, m) ==
    IF connect_denied(service_name[c], m.name)
      THEN [reply |-> "Error(NotAllowed)", name |-> service_name[c],
            forward |-> << >>]
    ELSE [reply |-> None, name |-> service_name[c],
          forward |-> <<ClientRequest(c, m.name, m)>>]

\* handle_client_message
handle_client_message(c, m) ==
    IF m.type = "Register" THEN handle_registration_message(c, m)
    ELSE IF m.type = "Connect" THEN handle_connect_message(c, m)
    ELSE [reply |-> "Error(InvalidProtocol)", name |-> service_name[c],
          forward |-> << >>]

\* number of messages read so far by the client tasks in S
RECURSIVE MsgsRead(_, _)
MsgsRead(log, S) ==
    IF S = {} THEN 0
    ELSE LET c == CHOOSE x \in S : TRUE
         IN Len(log[c]) + MsgsRead(log, S \ {c})

\* run(), the read arm of select!: one message is parsed from the buffer,
\* handled, and the handler's reply, if any, is written to the socket
ClientRead(c) ==
    /\ MsgsRead(inbound, Clients) < MaxMsgs
    /\ \E m \in ClientMessages :
         LET h == handle_client_message(c, m) IN
           /\ inbound' = [inbound EXCEPT ![c] = Append(@, m)]
           /\ service_name' = [service_name EXCEPT ![c] = h.name]
           /\ hub_queue' = hub_queue \o h.forward
           /\ socket_out' = IF h.reply = None THEN socket_out
                            ELSE [socket_out EXCEPT ![c] = Append(@, h.reply)]
    /\ UNCHANGED <<client_queue, name_table, fd_pairs>>

\* run(), the client_rx arm of select!: the message is written, and for
\* HubReponse::Fd the descriptor is sent after it
ClientWrite(c) ==
    /\ client_queue[c] # << >>
    /\ LET item == Head(client_queue[c]) IN
         socket_out' = [socket_out EXCEPT ![c] =
            IF item.kind = "Fd" THEN @ \o <<item.message, "fd">>
            ELSE Append(@, item.message)]
    /\ client_queue' = [client_queue EXCEPT ![c] = Tail(@)]
    /\ UNCHANGED <<service_name, hub_queue, inbound, name_table, fd_pairs>>

\* Client::send_message: `self.client_tx.send(HubReponse::Message(message))`
send_message(q, c, m) == [q EXCEPT ![c] = Append(@, HubMessage(m))]

\* Client::send_connection_fd: `let message = Response::Ok.into();
\* self.client_tx.send(HubReponse::Fd(message, fd))`
send_connection_fd(q, c) == [q EXCEPT ![c] = Append(@, HubFd("Ok"))]

\* the hub's name table lookup
NameOwners(n) == {p[2] : p \in {q \in name_table : q[1] = n}}

\* the hub core takes the ClientRequest at the head of the channel: a
\* Register binds the name unless it is taken; a Connect looks the target
\* up, creates a socket pair and hands one end to each party
HubHandle ==
    /\ hub_queue # << >>
    /\ LET req == Head(hub_queue)
           c == req.uuid
           n == req.service_name
       IN
         /\ Len(client_queue[c]) < CLIENT_CHANNEL_CAPACITY
         /\ IF req.message.type = "Register"
              THEN IF NameOwners(n) # {}
                     THEN /\ client_queue' = send_message(client_queue, c,
                                                 "Error(NameAlreadyRegistered)")
                          /\ UNCHANGED <<name_table, fd_pairs>>
                     ELSE /\ name_table' = name_table \cup {<<n, c>>}
                          /\ client_queue' = send_message(client_queue, c, "Ok")
                          /\ UNCHANGED fd_pairs
              ELSE IF NameOwners(n) = {}
                     THEN /\ client_queue' = send_message(client_queue, c,
                                                 "Error(ServiceNotFound)")
                          /\ UNCHANGED <<name_table, fd_pairs>>
                     ELSE /\ fd_pairs' = fd_pairs + 1
                          /\ \E target \in NameOwners(n) :
                               client_queue' = send_connection_fd(
                                   send_connection_fd(client_queue, target), c)
                          /\ UNCHANGED name_table
    /\ hub_queue' = Tail(hub_queue)
    /\ UNCHANGED <<service_name, socket_out, inbound>>

\* ------------------------------------------------------------ wire codec
\* two legal messages and, for each, the bytes of its BSON document after
\* the length prefix: the elements and the terminating 0
ParseMessages == {"m1", "m2"}

Elements(m) == IF m = "m1" THEN <<1, 0>> ELSE <<2, 1, 0>>

\* i32::to_le_bytes / i32::from_le_bytes, for lengths below 2^31
to_le_bytes(n) ==
    <<n % 256, (n \div 256) % 256, (n \div 65536) % 256, (n \div 16777216) % 256>>

from_le_bytes(b) == b[1] + 256 * b[2] + 65536 * b[3] + 16777216 * b[4]

\* Message::bytes: the document, whose first four bytes are its own length
bytes(m) == to_le_bytes(Len(Elements(m)) + 4) \o Elements(m)

DecodeError == "decode error"

\* bson::from_slice on the buffer: the document at the head of the slice,
\* by its own length prefix, or an error
from_slice(b) ==
    IF Len(b) < 4 THEN DecodeError
    ELSE LET n == from_le_bytes(b) IN
      IF n < 5 \/ n > Len(b) THEN DecodeError
      ELSE LET doc == SubSeq(b, 1, n) IN
        IF \E m \in ParseMessages : doc = bytes(m)
          THEN CHOOSE m \in ParseMessages : doc = bytes(m)
          ELSE DecodeError

\* frames of complete declared length that do not decode: an unknown
\* element, and a length prefix smaller than any document
CorruptFrames == {<<6, 0, 0, 0, 9, 0>>, <<3, 0, 0, 0>>}

\* what the peer can put on the wire
Frames == {bytes(m) : m \in ParseMessages} \cup CorruptFrames

RECURSIVE Concat(_)
Concat(fs) == IF fs = << >> THEN << >> ELSE Head(fs) \o Concat(Tail(fs))

\* EitherMessage
FullMessage(m) == [kind |-> "FullMessage", message |-> m, n |-> 0]

NeedMoreData(n) == [kind |-> "NeedMoreData", message |-> None, n |-> n]

NoResult == [kind |-> None, message |-> None, n |-> 0]

\* `buffer.advance(frame_len)`
advance_clear(b, n) == << >>

advance(b, n) == SubSeq(b, n + 1, Len(b))

\* parse_buffer: the value returned and the buffer it leaves
parse_buffer(b) ==
    IF Len(b) < 4
      THEN [result |-> NeedMoreData(4), buffer |-> b]
    ELSE LET frame_len == from_le_bytes(SubSeq(b, 1, 4)) IN
      IF Len(b) >= frame_len
        THEN IF from_slice(b) # DecodeError
               THEN [result |-> FullMessage(from_slice(b)),
                     buffer |-> advance(b, frame_len)]
               ELSE [result |-> NeedMoreData(4), buffer |-> b]
        ELSE [result |-> NeedMoreData(frame_len - Len(b)), buffer |-> b]

\* nothing on the wire
ParseIdle ==
    /\ sent = << >>
    /\ wire = << >>
    /\ buffer = << >>
    /\ parse_result = NoResult
    /\ parsed = << >>

\* the peer has sent up to MaxFrames frames; nothing has been read yet
ParseInit ==
    /\ sent \in UNION {[1..n -> Frames] : n \in 1..MaxFrames}
    /\ wire = Concat(sent)
    /\ buffer = << >>
    /\ parse_result = NoResult
    /\ parsed = << >>

\* parse_buffer is applied to buffer b
Parse(b) ==
    LET p == parse_buffer(b) IN
      /\ buffer' = p.buffer
      /\ parse_result' = p.result
      /\ parsed' = IF p.result.kind = "FullMessage"
                     THEN Append(parsed, p.result.message)
                     ELSE parsed

\* the next k bytes arrive in the buffer and parse_buffer is called
Feed(k) ==
    /\ k \in 1..Len(wire)
    /\ wire' = SubSeq(wire, k + 1, Len(wire))
    /\ Parse(buffer \o SubSeq(wire, 1, k))
    /\ UNCHANGED sent

\* after a FullMessage the caller parses again what is left in the buffer
Drain ==
    /\ parse_result.kind = "FullMessage"
    /\ buffer # << >>
    /\ Parse(buffer)
    /\ UNCHANGED <<sent, wire>>

\* ------------------------------------------------- client-side State<T>
StateNames == {"s1", "s2"}

StateValues == {0, 1, 2}

\* BusState<T>, as returned by bus.register_state
BusState(name, value) == [name |-> name, value |-> value]

\* Option::None for State.internal
Unregistered == [name |-> None, value |-> 0]

Returned(op, ret) == [op |-> op, ret |-> ret, value |-> 0]

\* State::new
StateInit ==
    /\ internal = Unregistered
    /\ service_bus = FALSE
    /\ bus_poisoned = FALSE
    /\ state_result = Returned(None, None)
    /\ state_ops = 0

\* `if self.internal.is_some()`
already_registered_never(i) == FALSE

already_registered(i) == i # Unregistered

\* State::register: an early Err(AlreadyRegistered); a panic when the
\* SERVICE_BUS mutex is poisoned or holds no bus, the latter while the lock
\* is held; otherwise bus.register_state, whose error `?` returns
StateRegister ==
    /\ state_ops < MaxOps
    /\ state_ops' = state_ops + 1
    /\ \E name \in StateNames, value \in StateValues, bus_ok \in BOOLEAN :
         IF already_registered(internal)
           THEN /\ state_result' = Returned("register", "Err(AlreadyRegistered)")
                /\ UNCHANGED <<internal, bus_poisoned>>
         ELSE IF bus_poisoned
           THEN /\ state_result' = Returned("register", "panic")
                /\ UNCHANGED <<internal, bus_poisoned>>
         ELSE IF ~service_bus
           THEN /\ state_result' = Returned("register", "panic")
                /\ bus_poisoned' = TRUE
                /\ UNCHANGED internal
         ELSE IF bus_ok
           THEN /\ internal' = BusState(name, value)
                /\ state_result' = Returned("register", "Ok")
                /\ UNCHANGED bus_poisoned
         ELSE /\ state_result' = Returned("register", "Err(bus)")
              /\ UNCHANGED <<internal, bus_poisoned>>
    /\ UNCHANGED service_bus

\* State::set
StateSet ==
    /\ state_ops < MaxOps
    /\ state_ops' = state_ops + 1
    /\ \E value \in StateValues :
         IF internal = Unregistered
           THEN /\ state_result' = Returned("set", "panic")
                /\ UNCHANGED internal
           ELSE /\ internal' = [internal EXCEPT !.value = value]
                /\ state_result' = Returned("set", "Ok")
    /\ UNCHANGED <<service_bus, bus_poisoned>>

\* State::get
StateGet ==
    /\ state_ops < MaxOps
    /\ state_ops' = state_ops + 1
    /\ state_result' = IF internal = Unregistered
                         THEN Returned("get", "panic")
                         ELSE [Returned("get", "Ok") EXCEPT !.value = internal.value]
    /\ UNCHANGED <<internal, service_bus, bus_poisoned>>

\* the service connects to the bus and stores it in SERVICE_BUS
BusConnect ==
    /\ ~service_bus /\ ~bus_poisoned
    /\ service_bus' = TRUE
    /\ UNCHANGED <<internal, bus_poisoned, state_result, state_ops>>

\* ------------------------------------------ hub client task: the run loop
\* the task spawned by Client::run, step by step: every .await on the
\* socket is a step, and every socket operation can fail
RunInit ==
    /\ task = [c \in Clients |-> "select"]
    /\ bytes_in = [c \in Clients |-> << >>]
    /\ run_sends = 0

\* messages the clients of the run loop send
RunMessages == {Register(PROTOCOL_VERSION, "svc.a"), Data}

\* what one read_buf can bring: no complete frame, one, or two
ReadBatches ==
    {<< >>} \cup {<<m>> : m \in RunMessages}
      \cup {<<m1, m2>> : m1 \in RunMessages, m2 \in RunMessages}

\* frames read so far by the tasks in S, handled or still buffered
RECURSIVE FramesRead(_)
FramesRead(S) ==
    IF S = {} THEN 0
    ELSE LET c == CHOOSE x \in S : TRUE
         IN Len(inbound[c]) + Len(bytes_in[c]) + FramesRead(S \ {c})

\* `let shutdown = matches!(message, Message::Response(Response::Shutdown))`
is_shutdown_never(m) == FALSE

is_shutdown(m) == m = "Shutdown"

\* the HubReponse::Fd arm after `socket.write_all(message..)`: on to
\* `socket.writable().await`, or out of the task on a write error
after_fd_message_detached(ok) == IF ok THEN "select" ELSE "closed"

after_fd_message(ok) == IF ok THEN "writable" ELSE "closed"

\* `socket.write_all(response.bytes().as_slice()).await.unwrap()`
after_reply(ok) == IF ok THEN "select" ELSE "panicked"

\* run(), the read arm: a read error ends the task; otherwise the bytes are
\* appended, `if let Some(message) = parse_buffer(&mut bytes)` takes one
\* message, the handler runs and its reply, if any, is written and unwrapped
RunRead(c) ==
    /\ task[c] = "select"
    /\ \E read_ok \in BOOLEAN :
         IF ~read_ok
           THEN /\ task' = [task EXCEPT ![c] = "closed"]
                /\ UNCHANGED <<bytes_in, inbound, service_name, hub_queue,
                               socket_out>>
           ELSE \E batch \in ReadBatches :
                  /\ FramesRead(Clients) + Len(batch) <= MaxReads
                  /\ LET buf == bytes_in[c] \o batch IN
                       IF buf = << >>
                         THEN UNCHANGED <<task, bytes_in, inbound, service_name,
                                          hub_queue, socket_out>>
                         ELSE LET m == Head(buf)
                                  h == handle_client_message(c, m)
                              IN /\ bytes_in' = [bytes_in EXCEPT ![c] = Tail(buf)]
                                 /\ inbound' = [inbound EXCEPT ![c] = Append(@, m)]
                                 /\ service_name' =
                                      [service_name EXCEPT ![c] = h.name]
                                 /\ hub_queue' = hub_queue \o h.forward
                                 /\ IF h.reply = None
                                      THEN UNCHANGED <<task, socket_out>>
                                      ELSE \E write_ok \in BOOLEAN :
                                             /\ task' = [task EXCEPT ![c] =
                                                           after_reply(write_ok)]
                                             /\ socket_out' =
                                                  IF write_ok
                                                    THEN [socket_out EXCEPT ![c] =
                                                            Append(@, h.reply)]
                                                    ELSE socket_out
    /\ UNCHANGED <<client_queue, name_table, fd_pairs, run_sends>>

\* run(), the client_rx arm: the item's message is written; a write error
\* ends the task, a Shutdown ends it after the write, and an Fd item goes on
\* to its descriptor
RunRecv(c) ==
    /\ task[c] = "select"
    /\ client_queue[c] # << >>
    /\ LET item == Head(client_queue[c]) IN
         \E write_ok \in BOOLEAN :
           /\ socket_out' = IF write_ok
                              THEN [socket_out EXCEPT ![c] =
                                      Append(@, item.message)]
                              ELSE socket_out
           /\ task' = [task EXCEPT ![c] =
                IF item.kind = "Fd" THEN after_fd_message(write_ok)
                ELSE IF ~write_ok \/ is_shutdown(item.message) THEN "closed"
                ELSE "select"]
    /\ client_queue' = [client_queue EXCEPT ![c] = Tail(@)]
    /\ UNCHANGED <<service_name, hub_queue, inbound, name_table, fd_pairs,
                   bytes_in, run_sends>>

\* `socket.writable().await`
RunWritable(c) ==
    /\ task[c] = "writable"
    /\ \E ok \in BOOLEAN :
         task' = [task EXCEPT ![c] = IF ok THEN "send_fd" ELSE "closed"]
    /\ UNCHANGED <<hubvars, bytes_in, run_sends>>

\* `socket.as_raw_fd().send_fd(fd.as_raw_fd())`: a failure is only logged
RunSendFd(c) ==
    /\ task[c] = "send_fd"
    /\ \E ok \in BOOLEAN :
         socket_out' = IF ok THEN [socket_out EXCEPT ![c] = Append(@, "fd")]
                       ELSE socket_out
    /\ task' = [task EXCEPT ![c] = "select"]
    /\ UNCHANGED <<service_name, hub_queue, client_queue, inbound, name_table,
                   fd_pairs, bytes_in, run_sends>>

\* the hub core calls send_message or send_connection_fd on a client
\* record; once the task has dropped client_rx the send fails, which is
\* logged and changes nothing
RunHubSend(c) ==
    /\ run_sends < MaxSends
    /\ run_sends' = run_sends + 1
    /\ task[c] \notin {"closed", "panicked"}
    /\ Len(client_queue[c]) < CLIENT_CHANNEL_CAPACITY
    /\ \E m \in {"Ok", "fd"} :
         client_queue' =
           IF m = "fd" THEN send_connection_fd(client_queue, c)
           ELSE send_message(client_queue, c, m)
    /\ UNCHANGED <<service_name, hub_queue, socket_out, inbound, name_table,
                   fd_pairs, task, bytes_in>>

\* Drop for Client: `let _ = self.client_tx.blocking_send(
\* HubReponse::Message(Response::Shutdown.into()))`, once for every clone of
\* the record that is dropped; a send to a task that has ended fails and is
\* ignored
RunDrop(c) ==
    /\ run_sends < MaxSends
    /\ run_sends' = run_sends + 1
    /\ task[c] \notin {"closed", "panicked"}
    /\ Len(client_queue[c]) < CLIENT_CHANNEL_CAPACITY
    /\ client_queue' = send_message(client_queue, c, "Shutdown")
    /\ UNCHANGED <<service_name, hub_queue, socket_out, inbound, name_table,
                   fd_pairs, task, bytes_in>>

Init == RegistryInit /\ HubInit /\ ParseIdle /\ StateInit /\ RunInit

\* call() and resolve() invoked from any number of tasks on clones
Next ==
    \/ \E t \in Callers : CallDraw(t) /\ UNCHANGED <<hubvars, parsevars, statevars, runvars>>
    \/ \E t \in Callers : CallWrite(t) /\ UNCHANGED <<hubvars, parsevars, statevars, runvars>>
    \/ \E t \in Callers : CallInsert(t) /\ UNCHANGED <<hubvars, parsevars, statevars, runvars>>
    \/ \E r \in Resolvers : ResolveLookup(r) /\ UNCHANGED <<hubvars, parsevars, statevars, runvars>>
    \/ \E r \in Resolvers : ResolveSend(r) /\ UNCHANGED <<hubvars, parsevars, statevars, runvars>>
    \/ \E r \in Resolvers : ResolveRemove(r) /\ UNCHANGED <<hubvars, parsevars, statevars, runvars>>
    \/ \E t \in Callers : DropReceiver(t) /\ UNCHANGED <<hubvars, parsevars, statevars, runvars>>

Spec == Init /\ [][Next]_vars

\* the peer's own use of the registry: resolve() is invoked only by the task
\* that reads the socket, call() by any task holding a clone
NextInbound ==
    \/ \E t \in Callers : CallDraw(t) /\ UNCHANGED <<hubvars, parsevars, statevars, runvars>>
    \/ \E t \in Callers : CallWrite(t) /\ UNCHANGED <<hubvars, parsevars, statevars, runvars>>
    \/ \E t \in Callers : CallInsert(t) /\ UNCHANGED <<hubvars, parsevars, statevars, runvars>>
    \/ ResolveLookup(InboundReader) /\ UNCHANGED <<hubvars, parsevars, statevars, runvars>>
    \/ ResolveSend(InboundReader) /\ UNCHANGED <<hubvars, parsevars, statevars, runvars>>
    \/ ResolveRemove(InboundReader) /\ UNCHANGED <<hubvars, parsevars, statevars, runvars>>
    \/ \E t \in Callers : DropReceiver(t) /\ UNCHANGED <<hubvars, parsevars, statevars, runvars>>

SpecInbound == Init /\ [][NextInbound]_vars

\* the hub: one task per accepted client and the hub core, which consumes
\* the ClientRequest channel sequentially
NextHub ==
    \/ \E c \in Clients : ClientRead(c) /\ UNCHANGED <<regvars, parsevars, statevars, runvars>>
    \/ \E c \in Clients : ClientWrite(c) /\ UNCHANGED <<regvars, parsevars, statevars, runvars>>
    \/ HubHandle /\ UNCHANGED <<regvars, parsevars, statevars, runvars>>

SpecHub == Init /\ [][NextHub]_vars

\* the parser, fed the peer's frames in chunks of every size
InitParse == RegistryInit /\ HubInit /\ ParseInit /\ StateInit /\ RunInit

NextParse ==
    \/ \E k \in 1..Len(wire) : Feed(k) /\ UNCHANGED <<regvars, hubvars, statevars, runvars>>
    \/ Drain /\ UNCHANGED <<regvars, hubvars, statevars, runvars>>

SpecParse == InitParse /\ [][NextParse]_vars

\* one State handle, used in any order, in a process that may or may not
\* have connected to the bus
NextState ==
    \/ StateRegister /\ UNCHANGED <<regvars, hubvars, parsevars, runvars>>
    \/ StateSet /\ UNCHANGED <<regvars, hubvars, parsevars, runvars>>
    \/ StateGet /\ UNCHANGED <<regvars, hubvars, parsevars, runvars>>
    \/ BusConnect /\ UNCHANGED <<regvars, hubvars, parsevars, runvars>>

SpecState == Init /\ [][NextState]_vars

\* the spawned tasks of two clients, the peers that write to their sockets
\* and the hub core that sends on their client_tx channels
NextRun ==
    \/ \E c \in Clients : RunRead(c) /\ UNCHANGED <<regvars, parsevars, statevars>>
    \/ \E c \in Clients : RunRecv(c) /\ UNCHANGED <<regvars, parsevars, statevars>>
    \/ \E c \in Clients : RunWritable(c) /\ UNCHANGED <<regvars, parsevars, statevars>>
    \/ \E c \in Clients : RunSendFd(c) /\ UNCHANGED <<regvars, parsevars, statevars>>
    \/ \E c \in Clients : RunHubSend(c) /\ UNCHANGED <<regvars, parsevars, statevars>>
    \/ \E c \in Clients : RunDrop(c) /\ UNCHANGED <<regvars, parsevars, statevars>>

SpecRun == Init /\ [][NextRun]_vars

\* ------------------------------------------------ call registry: claims
Range(q) == {q[i] : i \in 1..Len(q)}

IsContiguous(S) == S = {} \/ \E k \in S : S = k..(k + Cardinality(S) - 1)

\* C1: when resolve(m) returns and m.seq had an entry when resolve looked it
\* up, has_call(m.seq) is true if m is a Signal and false for every other
\* body; so an entry survives any number of successive Signals.
C1_OneShotVsSubscription ==
    [][\A r \in Resolvers :
         (res_pc[r] = "remove" /\ res_pc'[r] = "idle" /\ res_sender[r] # None)
           => ((res_msg[r].seq \in DOMAIN calls') <=> (res_msg[r].body = "Signal"))
      ]_vars

\* two successive Signals on one seq were delivered and the entry is kept
C1_Witness ==
    \E t \in Callers :
       /\ Len(sink_rx[t]) = 2
       /\ sink_rx[t][1].body = "Signal" /\ sink_rx[t][2].body = "Signal"
       /\ sink_rx[t][1].seq = sink_rx[t][2].seq
       /\ res_pc[InboundReader] = "idle"
       /\ has_call(sink_rx[t][1].seq)

\* C2: the seqs drawn by call() are pairwise distinct, every run of
\* consecutive draws is a permutation of a contiguous range, callers inside
\* call() hold distinct seqs, and seq_counter never decreases.
C2_SeqPermutation ==
    /\ [](/\ \A i, j \in 1..Len(assigned) :
               i # j => assigned[i] # assigned[j]
          /\ \A i, j \in 1..Len(assigned) :
               i <= j => IsContiguous({assigned[x] : x \in i..j})
          /\ \A t1, t2 \in Callers :
               (t1 # t2 /\ call_pc[t1] # "idle" /\ call_pc[t2] # "idle")
                 => call_seq[t1] # call_seq[t2])
    /\ [][seq_counter' >= seq_counter]_vars

\* two callers are inside call() at once, each holding the seq it drew
C2_Witness ==
    /\ call_pc["w1"] = "write" /\ call_pc["w2"] = "write"
    /\ Len(assigned) = 2

\* C4: a sink never receives two terminal (non-Signal) messages for one
\* call entry, also when resolve() runs concurrently on clones.
C4_ExactlyOneTerminal ==
    \A t \in Callers : \A i, j \in 1..Len(sink_rx[t]) :
       (i < j /\ sink_rx[t][i].seq = sink_rx[t][j].seq)
         => ~(sink_rx[t][i].body # "Signal" /\ sink_rx[t][j].body # "Signal")

\* C5: call() is atomic with respect to resolve(): no resolve() does its
\* lookup while a call has written its frame and not yet inserted its entry.
C5_CallAtomic ==
    [][\A r \in Resolvers :
         (res_pc[r] = "idle" /\ res_pc'[r] = "send")
           => ~(\E t \in Callers :
                  /\ call_pc[t] = "insert"
                  /\ call_seq[t] = res_msg'[r].seq
                  /\ call_seq[t] \in Range(socket))
      ]_vars

\* C6: every table entry belongs to a frame that was written, a call still
\* before or at its write has no entry, a failed write returns the I/O error
\* without a later insertion, every written frame carries a seq drawn
\* before, and the draw and the write themselves leave the table alone.
C6_NoGhostEntry ==
    /\ [](/\ DOMAIN calls \subseteq Range(socket)
          /\ Range(socket) \subseteq Range(assigned)
          /\ \A t \in Callers :
               /\ call_pc[t] = "write" => call_seq[t] \notin DOMAIN calls
               /\ call_pc[t] = "insert" => call_seq[t] \in Range(socket)
               /\ call_result[t] = "io_error" => call_pc[t] = "idle")
    /\ [][\A t \in Callers :
            (call_pc[t] \in {"idle", "write"} /\ call_pc'[t] # call_pc[t])
              => calls' = calls]_vars

\* a call failed at its write while another call's entry is in the table
C6_Witness ==
    \E t \in Callers :
       /\ call_result[t] = "io_error" /\ call_pc[t] = "idle"
       /\ seq_counter = 2
       /\ Cardinality(DOMAIN calls) = 1
       /\ call_seq[t] \notin DOMAIN calls

C13_DroppedSink ==
    [][\A r \in Resolvers :
         /\ (res_pc[r] = "send" /\ res_pc'[r] # "send"
               /\ res_sender[r] \in rx_dropped)
              => /\ res_pc'[r] = "remove"
                 /\ sink_rx' = sink_rx
                 /\ calls' = calls
         /\ (res_pc[r] = "remove" /\ res_pc'[r] # "remove"
               /\ res_sender[r] \in rx_dropped)
              => /\ res_pc'[r] = "idle"
                 /\ (res_msg[r].seq \in DOMAIN calls')
                      <=> (res_msg[r].body = "Signal")
                 /\ DOMAIN calls' \subseteq DOMAIN calls
                 /\ \A k \in (DOMAIN calls) \ {res_msg[r].seq} :
                      k \in DOMAIN calls' /\ calls'[k] = calls[k]
      ]_vars

\* the first resolve(), a terminal one, found the entry of a sink whose
\* Receiver is gone: nothing was delivered, and a second entry is in the table
C13_Witness ==
    /\ resolves = 1
    /\ res_pc[InboundReader] = "remove"
    /\ res_msg[InboundReader].body = "Return"
    /\ res_sender[InboundReader] \in rx_dropped
    /\ sink_rx[res_sender[InboundReader]] = << >>
    /\ Cardinality(DOMAIN calls) = 2

\* ----------------------------------------------------------- hub: claims
Last(q) == q[Len(q)]

\* client c has just read and handled message m
Handled(c, m) == inbound'[c] = Append(inbound[c], m)

\* C3: when two clients each send, as their only message, a Register with
\* the current protocol version for the same permitted name, then once both
\* are answered one has received Ok and the other
\* Error(NameAlreadyRegistered); at no time have both been told Ok, and the
\* name table never holds one name for two clients.
C3_NameUniqueness ==
    /\ \A p, q \in name_table : p[1] = q[1] => p[2] = q[2]
    /\ \A c1, c2 \in Clients : \A n \in Names :
         (/\ c1 # c2
          /\ service_name_allowed("socket_addr", n)
          /\ inbound[c1] = <<Register(PROTOCOL_VERSION, n)>>
          /\ inbound[c2] = <<Register(PROTOCOL_VERSION, n)>>)
           => /\ ~(socket_out[c1] = <<"Ok">> /\ socket_out[c2] = <<"Ok">>)
              /\ (socket_out[c1] # << >> /\ socket_out[c2] # << >>)
                   => {socket_out[c1], socket_out[c2]} =
                        {<<"Ok">>, <<"Error(NameAlreadyRegistered)">>}

\* both clients registered svc.a and both have their answer
C3_Witness ==
    /\ inbound["u1"] = <<Register(PROTOCOL_VERSION, "svc.a")>>
    /\ inbound["u2"] = <<Register(PROTOCOL_VERSION, "svc.a")>>
    /\ socket_out["u1"] = <<"Error(NameAlreadyRegistered)">>
    /\ socket_out["u2"] = <<"Ok">>

\* C7: a Register with the current protocol version whose name the oracle
\* denies is answered Error(NotAllowed), creates no name-table entry and
\* leaves the assigned service name unchanged.
C7_RegisterNotAllowed ==
    [][\A c \in Clients : \A n \in Names :
         (Handled(c, Register(PROTOCOL_VERSION, n))
            /\ ~service_name_allowed("socket_addr", n))
           => /\ socket_out'[c] = Append(socket_out[c], "Error(NotAllowed)")
              /\ name_table' = name_table
              /\ hub_queue' = hub_queue
              /\ service_name'[c] = service_name[c]
      ]_vars

C9_UnregisteredOnlyRegister ==
    [][\A c \in Clients : \A m \in ClientMessages :
         (Handled(c, m) /\ service_name[c] = "" /\ m.type # "Register")
           => /\ socket_out'[c] = Append(socket_out[c], "Error(InvalidProtocol)")
              /\ hub_queue' = hub_queue
              /\ service_name'[c] = ""
      ]_vars

\* C10: a Connect from a client with an assigned name that
\* connection_allowed denies is answered Error(NotAllowed) on the caller's
\* socket, and nothing else changes: no ClientRequest is forwarded, no
\* socket pair is created, nothing is enqueued or written to any other
\* client; and every Connect waiting at the hub core is one the oracle
\* allowed for the name its sender had.
C10_ConnectNotAllowed ==
    /\ [][\A c \in Clients : \A n \in Names :
            (Handled(c, Connect(n)) /\ service_name[c] # ""
               /\ ~connection_allowed(service_name[c], n))
              => /\ socket_out'[c] = Append(socket_out[c], "Error(NotAllowed)")
                 /\ \A d \in Clients \ {c} : socket_out'[d] = socket_out[d]
                 /\ hub_queue' = hub_queue
                 /\ client_queue' = client_queue
                 /\ fd_pairs' = fd_pairs
                 /\ name_table' = name_table
         ]_vars
    /\ [][\A c \in Clients : \A n \in Names :
            (Handled(c, Connect(n)) /\ hub_queue' # hub_queue)
              => connection_allowed(service_name[c], n)
         ]_vars

\* svc.b, registered, asked for svc.a, also registered, and was refused
C10_Witness ==
    /\ <<"svc.a", "u1">> \in name_table
    /\ <<"svc.b", "u2">> \in name_table
    /\ service_name["u2"] = "svc.b"
    /\ Last(inbound["u2"]) = Connect("svc.a")
    /\ socket_out["u2"] = <<"Ok", "Error(NotAllowed)">>
    /\ client_queue["u1"] = << >>
    /\ fd_pairs = 0

\* C11: when the hub core hands out a socket pair for a Connect of a
\* registered caller, the item
\* enqueued to the target carries IncomingPeerFd{caller's name} and the item
\* enqueued to the caller carries Ok, each with one descriptor.
C11_HandoffMessages ==
    [][(hub_queue # << >> /\ fd_pairs' = fd_pairs + 1
          /\ <<service_name[Head(hub_queue).uuid], Head(hub_queue).uuid>>
                \in name_table)
         => LET caller == Head(hub_queue).uuid IN
              \A target \in NameOwners(Head(hub_queue).service_name) \ {caller} :
                 /\ Last(client_queue'[caller]) = HubFd("Ok")
                 /\ Last(client_queue'[target]) =
                      HubFd(IncomingPeerFd(service_name[caller]))
      ]_vars

\* ---------------------------------------------------- wire codec: claims
\* the buffer that the parse_buffer call of this step was given
ParseInput == buffer \o SubSeq(wire, 1, Len(wire) - Len(wire'))

\* the peer sent legal messages only
LegalStream == \A i \in 1..Len(sent) : \E m \in ParseMessages : sent[i] = bytes(m)

MessageOf(frame) == CHOOSE m \in ParseMessages : bytes(m) = frame

\* C14: when the buffer given to parse_buffer starts with a frame of
\* complete declared length that does not decode, the result is not
\* NeedMoreData: the parser reports an error and the peer is disconnected.
C14_DecodeFailureFatal ==
    [][(parsevars' # parsevars
          /\ \E f \in CorruptFrames :
               /\ Len(ParseInput) >= Len(f)
               /\ SubSeq(ParseInput, 1, Len(f)) = f)
         => parse_result'.kind # "NeedMoreData"
      ]_vars

\* C15: for a stream of legal messages cut into chunks in any way, every
\* parse_buffer call on a buffer that holds less than the next frame returns
\* NeedMoreData and leaves the buffer as it is, with n = 4 below four bytes
\* and n = frame_len - buffer.len() otherwise; a call on a buffer that holds
\* the whole frame returns FullMessage of the message sent and advances the
\* buffer by frame_len, leaving the following bytes; so the messages
\* returned are the messages sent, in order, and no byte is lost.
C15_IncrementalParse ==
    /\ [](LegalStream =>
            /\ Len(parsed) <= Len(sent)
            /\ \A i \in 1..Len(parsed) : bytes(parsed[i]) = sent[i]
            /\ Concat(SubSeq(sent, Len(parsed) + 1, Len(sent))) = buffer \o wire)
    /\ [][(LegalStream /\ parsevars' # parsevars /\ Len(parsed) < Len(sent))
            => LET b == ParseInput
                   next == sent[Len(parsed) + 1]
                   frame_len == Len(next)
               IN IF Len(b) < 4
                    THEN /\ parse_result' = NeedMoreData(4)
                         /\ buffer' = b /\ parsed' = parsed
                  ELSE IF Len(b) < frame_len
                    THEN /\ parse_result' = NeedMoreData(frame_len - Len(b))
                         /\ buffer' = b /\ parsed' = parsed
                  ELSE /\ parse_result' = FullMessage(MessageOf(next))
                       /\ buffer' = SubSeq(b, frame_len + 1, Len(b))
                       /\ parsed' = Append(parsed, MessageOf(next))
         ]_vars

\* m2 was completed by a chunk that also brought the first two bytes of the
\* next frame, and these are still in the buffer
C15_Witness ==
    /\ sent = <<bytes("m2"), bytes("m1")>>
    /\ parsed = <<"m2">>
    /\ parse_result = FullMessage("m2")
    /\ buffer = SubSeq(bytes("m1"), 1, 2)
    /\ wire = SubSeq(bytes("m1"), 3, Len(bytes("m1")))

\* --------------------------------------------------------- State: claims
\* C16: register() on a registered handle returns Err(AlreadyRegistered)
\* and leaves the handle as it is; a register() whose bus registration
\* fails leaves the handle unregistered; the handle becomes registered only
\* by a register() that returns Ok, and once registered it stays registered
\* under the same name, so it is registered at most once.
C16_RegisterOnce ==
    [][state_ops' # state_ops =>
         /\ (state_result'.op = "register" /\ internal # Unregistered)
              => /\ state_result'.ret = "Err(AlreadyRegistered)"
                 /\ internal' = internal
         /\ (state_result'.op = "register" /\ state_result'.ret = "Err(bus)")
              => internal = Unregistered /\ internal' = Unregistered
         /\ (internal = Unregistered /\ internal' # Unregistered)
              => state_result' = Returned("register", "Ok")
         /\ internal # Unregistered
              => internal' # Unregistered /\ internal'.name = internal.name
      ]_vars

\* a second register() on a handle that a set() has since updated
C16_Witness ==
    /\ internal = BusState("s1", 1)
    /\ state_result = Returned("register", "Err(AlreadyRegistered)")
    /\ state_ops = 3

\* ---------------------------------------------------- run loop: claims
\* the task of client c is inside the HubReponse::Fd arm
InFdArm(c) == task[c] \in {"writable", "send_fd"}

\* C17: a queued Fd item goes out as one unit: its message is written, then
\* the task waits for the socket to be writable, then the descriptor is
\* sent; between the message and the descriptor the task writes nothing
\* else to that socket, handles no inbound message and takes no other item
\* from its queue, so every descriptor on a socket directly follows the
\* message of its item.
C17_FdUnit ==
    /\ [](\A c \in Clients :
            /\ InFdArm(c) => (socket_out[c] # << >> /\ Last(socket_out[c]) = "Ok")
            /\ \A i \in 1..Len(socket_out[c]) :
                 socket_out[c][i] = "fd"
                   => (i > 1 /\ socket_out[c][i - 1] = "Ok"))
    /\ [][\A c \in Clients :
            /\ (/\ task[c] = "select"
                /\ client_queue[c] # << >>
                /\ client_queue'[c] = Tail(client_queue[c])
                /\ Head(client_queue[c]).kind = "Fd"
                /\ socket_out'[c] # socket_out[c])
                 => /\ socket_out'[c] =
                         Append(socket_out[c], Head(client_queue[c]).message)
                    /\ task'[c] = "writable"
            /\ task[c] = "writable"
                 => /\ socket_out'[c] = socket_out[c]
                    /\ task'[c] \in {"writable", "send_fd", "closed"}
            /\ task[c] = "send_fd"
                 => /\ socket_out'[c] \in
                         {socket_out[c], Append(socket_out[c], "fd")}
                    /\ task'[c] \in {"send_fd", "select"}
            /\ InFdArm(c)
                 => /\ inbound'[c] = inbound[c]
                    /\ bytes_in'[c] = bytes_in[c]
                    /\ Len(client_queue'[c]) >= Len(client_queue[c])
            /\ (socket_out'[c] # socket_out[c] /\ Last(socket_out'[c]) = "fd")
                 => task[c] = "send_fd"
         ]_vars

\* an Fd item went out whole on a socket that had carried an inline reply,
\* while a frame of the client was waiting in the buffer and another item in
\* the queue
C17_Witness ==
    \E c \in Clients :
      /\ socket_out[c] = <<"Error(InvalidProtocol)", "Ok", "fd">>
      /\ bytes_in[c] # << >>
      /\ client_queue[c] # << >>

\* C18: every failed socket read or write of a client's task (the inline
\* reply, a queued message, the message of an Fd item, the descriptor
\* transfer) ends that task with its socket closed and without a panic, and
\* leaves the other clients' tasks as they were.
C18_FailureClosesTask ==
    /\ [](\A c \in Clients : task[c] # "panicked")
    /\ [][\A c \in Clients :
            /\ (task[c] = "send_fd" /\ task'[c] # "send_fd"
                  /\ socket_out'[c] = socket_out[c])
                 => task'[c] = "closed"
            /\ (task[c] = "select" /\ task'[c] # task[c]
                  /\ socket_out'[c] = socket_out[c])
                 => task'[c] = "closed"
            /\ task'[c] # task[c]
                 => \A d \in Clients \ {c} : task'[d] = task[d]
         ]_vars

\* the task of client c has written a Shutdown to its socket
ShutdownWritten(c) ==
    socket_out[c] # << >> /\ Last(socket_out[c]) = "Shutdown"

\* C19: a task that takes a Shutdown from its queue writes it and exits: a
\* Shutdown is the last thing on its socket and is there at most once, and
\* after it the task writes nothing, handles no further inbound message and
\* takes nothing more from its queue.
C19_ShutdownIsFinal ==
    /\ [](\A c \in Clients : \A i \in 1..Len(socket_out[c]) :
            socket_out[c][i] = "Shutdown"
              => (i = Len(socket_out[c]) /\ task[c] = "closed"))
    /\ [][\A c \in Clients :
            /\ (/\ task[c] = "select"
                /\ client_queue[c] # << >>
                /\ client_queue'[c] = Tail(client_queue[c])
                /\ Head(client_queue[c]) = HubMessage("Shutdown"))
                 => /\ task'[c] = "closed"
                    /\ socket_out'[c] \in
                         {socket_out[c], Append(socket_out[c], "Shutdown")}
            /\ ShutdownWritten(c)
                 => /\ socket_out'[c] = socket_out[c]
                    /\ inbound'[c] = inbound[c]
                    /\ bytes_in'[c] = bytes_in[c]
                    /\ client_queue'[c] = client_queue[c]
                    /\ task'[c] = task[c]
         ]_vars

\* a task exited on a Shutdown with a frame still in its buffer and an item
\* still in its queue
C19_Witness ==
    \E c \in Clients :
      /\ ShutdownWritten(c)
      /\ bytes_in[c] # << >>
      /\ client_queue[c] # << >>

\* C20: after each socket read the task handles every complete frame in its
\* buffer before it waits again: a read that leaves the task in its loop
\* leaves no complete frame in the buffer.
C20_DrainsAllFrames ==
    [][\A c \in Clients :
         (/\ task[c] = "select"
          /\ (inbound'[c] # inbound[c] \/ bytes_in'[c] # bytes_in[c])
          /\ task'[c] = "select")
           => bytes_in'[c] = << >>
      ]_vars

====
